---- MODULE Spec2Model ----
(***************************************************************************)
(* The voice client of src/src/lib/voice/VoiceClient.ts as a state         *)
(* machine: one VoiceClient instance, the WebSocket objects it creates,    *)
(* the SFU at the other end of each of them, and the browser's timers.     *)
(*                                                                         *)
(* Every handler of the class is an operator from a session record to a    *)
(* session record, named after the method it is translated from; an action *)
(* runs one browser task (an API call, a WebSocket event, a timer          *)
(* callback) together with the promise continuations (microtasks) that the *)
(* task makes runnable, which the event loop runs before any other task.   *)
(*                                                                         *)
(* Time is counted in units of half a heartbeat interval and only while a  *)
(* heartbeat timer is armed; the 10 s handshake timeouts and the reconnect *)
(* backoff timers fire at any moment while they are armed.                 *)
(***************************************************************************)
EXTENDS Integers, Sequences, FiniteSets, TLC

\* ---------------------------------------------------------------- bounds
\* WebSocket objects that are alive (not yet closed and forgotten) at once
MaxSockets == 2
\* backoff timers whose handle this.reconnectTimer no longer holds
MaxOrphanTimers == 1
\* the missed-heartbeat counter is followed up to this value
MaxMissed == 3
\* startSpeaking() calls in flight at once
MaxStartCalls == 1
\* audio packets built in one run
MaxPackets == 3
\* jitter-buffer inits in flight at once
MaxJitterInits == 1
\* packets of one sender that may wait for jitterBuffer.init() in a burst
MaxBurst == 2
\* header bytes that may be changed in transit
MaxTamper == 1
\* packets of the run a sender emits into one JitterBuffer
RunLen == 5
\* frames a JitterBuffer hands to the playback
MaxPlayed == 6
\* polls in a row that find the expected packet missing
MaxPLC == 7

\* ------------------------------------------------------ program constants
\* options.maxReconnectAttempts ?? 5
maxReconnectAttempts == 5
\* data.heartbeat_interval of Ready, in time units (one unit is half of it)
HeartbeatInterval == 2
\* OPUS_FRAME_SIZE: samples of one 20 ms frame at 48 kHz
OPUS_FRAME_SIZE == 960

Sockets == 1..MaxSockets
\* values crypto.randomUUID() may return
SessionIds == {"uuid-1", "uuid-2"}
\* data.ssrc of Ready
LocalSsrcs == {12345}
\* SpeakingFlags.MICROPHONE
MICROPHONE == 1
\* options.userId and the user ids the SFU announces
LocalUser == "me"
Users == {"me", "A", "B"}
\* the ssrc values the SFU announces and inbound frames carry; 0 stands for no ssrc
RemoteSsrcs == {111, 222}
\* an ssrc no UserJoin has announced
UnknownSsrc == 333
\* JitterBuffer: (OPUS_FRAME_SIZE / OPUS_SAMPLE_RATE) * 1000
FRAME_DURATION_MS == 20
MIN_BUFFER_MS == 60
MAX_BUFFER_MS == 200
MAX_MISSING_FRAMES == 5
\* the sequence numbers a sender's run may start at
RunStarts == {1, 65534}

\* the secret keys of SessionDescribe, and the values a byte changed in
\* transit may take
Keys == {1, 2}
TamperBytes == {0, 111, 222, 255}
\* the Opus payloads, sequence numbers and timestamps of the packets sent
OpusPayloads == {"opus-1", "opus-2"}
WireSequences == {0, 258, 65535}
WireTimestamps == { [ hi |-> 0, lo |-> 960 ], [ hi |-> 65535, lo |-> 65535 ] }

RNNOISE_FRAME_SIZE == 480
\* the lengths of the blocks the capture callback hands to the pipeline
Blocks == {240, 1024}

VARIABLES
  connectionState,       \* "disconnected" | "connecting" | "connected" | "reconnecting"
  ws,                    \* this.ws: 0 (null) or the socket it refers to
  sock,                  \* the WebSocket objects, with the closures of their handlers
  sessionId,
  intentionalDisconnect,
  reconnectAttempt,
  reconnectTimer,        \* this.reconnectTimer holds the handle of a pending backoff timer
  orphanTimers,          \* armed backoff timers that this.reconnectTimer no longer holds
  heartbeatTimer,        \* this.heartbeatTimer is armed
  heartbeatInterval,
  missedHeartbeats,
  ackAge,                \* Date.now() - this.lastHeartbeatAck, in time units
  hbClock,               \* time units until the heartbeat timer fires
  ssrc,
  secretKey,             \* 0 (null) or the key of the last SessionDescribe
  speaking,
  wasSpeaking,
  localStream,
  audioContext,
  audioPipeline,         \* "none" | "created" | "ready" | "failed"
  processorNode,
  playbackTimer,
  playbackContext,
  sequenceNumber,
  timestamp,             \* 32 bits, as the two 16-bit halves hi and lo
  sent,                  \* the RTP headers of the last two packets given to ws.send
  reconnectDelay,        \* the delay of the backoff timer this.reconnectTimer holds, in ms
  users,                 \* this.users: user id -> the ssrc of its VoiceUser, 0 when absent
  ssrcToUser,            \* this.ssrcToUser: ssrc -> user id, "" when absent
  jitterBuffers,         \* the keys of this.jitterBuffers
  jitterInits,           \* handleAudioPacket calls waiting for jitterBuffer.init(), per ssrc
  jitterReplaced,        \* per ssrc: a JitterBuffer holding a packet was replaced in this.jitterBuffers
  audioIn,               \* what the last step did with an inbound frame
  gumCalls,              \* startSpeaking() calls waiting for getUserMedia
  orphanInits,           \* pipeline inits in flight on a pipeline this.audioPipeline no longer holds
  step,                  \* the task the last step ran: what happened, on which socket
  emitted,               \* the observer callbacks made by the last step, in order
  reconnectLog,          \* attempts reported by onReconnecting since the last completed handshake
  identifies,            \* the session_id of every Identify the SFU has received
  connectCalled,         \* connect() has been called
  disconnectCalled,      \* disconnect() has been called
  hbLate,                \* some Heartbeat stayed unacknowledged for more than heartbeat_interval
  jb,                    \* one JitterBuffer: buffer (by receivedAt), nextSequence, ...
  feed,                  \* the sender's run and what of it has arrived at the JitterBuffer
  played,                \* the frames pop() has returned, with consecutivePLC after each
  ap,                    \* one AudioPipeline, with what its last process() did
  wire                   \* one audio packet on its way from a sender to a receiver

sessionVars == << connectionState, ws, sock, sessionId, intentionalDisconnect, reconnectAttempt,
           reconnectTimer, orphanTimers, heartbeatTimer, heartbeatInterval,
           missedHeartbeats, ackAge, hbClock, ssrc, secretKey, speaking, wasSpeaking,
           localStream, audioContext, audioPipeline, processorNode, playbackTimer,
           playbackContext, sequenceNumber, timestamp, sent, reconnectDelay, users,
           ssrcToUser, jitterBuffers, jitterInits, jitterReplaced, audioIn, gumCalls,
           orphanInits, step,
           emitted, reconnectLog, identifies, connectCalled, disconnectCalled, hbLate >>

vars == << sessionVars, jb, feed, played, ap, wire >>

\* No binary frame has been handled in the step.
NoAudio ==
  [ frame |-> [ short |-> TRUE, ssrc |-> UnknownSsrc, auth |-> FALSE ], out |-> "none" ]

\* ------------------------------------------------------------- the session
\* The session as one record; ok turns FALSE when a step would pass a bound.
Cur ==
  [ connectionState |-> connectionState, ws |-> ws, sock |-> sock, sessionId |-> sessionId,
    intentionalDisconnect |-> intentionalDisconnect, reconnectAttempt |-> reconnectAttempt,
    reconnectTimer |-> reconnectTimer, orphanTimers |-> orphanTimers,
    heartbeatTimer |-> heartbeatTimer, heartbeatInterval |-> heartbeatInterval,
    missedHeartbeats |-> missedHeartbeats, ackAge |-> ackAge, hbClock |-> hbClock,
    ssrc |-> ssrc, secretKey |-> secretKey, speaking |-> speaking,
    wasSpeaking |-> wasSpeaking, localStream |-> localStream,
    audioContext |-> audioContext, audioPipeline |-> audioPipeline,
    processorNode |-> processorNode, playbackTimer |-> playbackTimer,
    playbackContext |-> playbackContext, sequenceNumber |-> sequenceNumber,
    timestamp |-> timestamp, sent |-> sent, reconnectDelay |-> reconnectDelay,
    users |-> users, ssrcToUser |-> ssrcToUser, jitterBuffers |-> jitterBuffers,
    jitterInits |-> jitterInits, jitterReplaced |-> jitterReplaced, audioIn |-> NoAudio,
    gumCalls |-> gumCalls, orphanInits |-> orphanInits,
    step |-> step, emitted |-> << >>, reconnectLog |-> reconnectLog,
    identifies |-> identifies, connectCalled |-> connectCalled,
    disconnectCalled |-> disconnectCalled, hbLate |-> hbLate, ok |-> TRUE ]

\* The session at the start of a task: what the task is, on a socket of which
\* creator (kind), whether this.ws holds that socket (cur), and whether the
\* handshake its creator waits for is still unsettled (pending).
Task(name, kind, current, pending) ==
  [ Cur EXCEPT !.step = [ in |-> name, kind |-> kind, cur |-> current,
                          pending |-> pending ] ]

ApiTask(name) == Task(name, "none", FALSE, FALSE)
SockTask(name, w) == Task(name, sock[w].kind, ws = w, ~sock[w].resolved)

\* A WebSocket object that does not exist (yet, or any more).
FreeSock ==
  [ rs |-> "free", kind |-> "connect", stage |-> 0, resolved |-> FALSE, timer |-> FALSE,
    hb |-> << >>, rtp |-> "none", spk |-> "none" ]

\* A closed socket whose timeout is spent and that this.ws does not hold can
\* run no handler any more: it is forgotten, and its place is free again.
Forget(s) ==
  [ s EXCEPT !.sock = [ w \in Sockets |->
      IF s.sock[w].rs = "closed" /\ ~s.sock[w].timer /\ s.ws # w
      THEN FreeSock
      ELSE IF s.sock[w].rs = "closed" THEN [ s.sock[w] EXCEPT !.hb = << >> ]
      ELSE s.sock[w] ] ]

\* A socket record as a number, different for different records.
SockKey(r) ==
  LET rsIdx == CASE r.rs = "free" -> 0 [] r.rs = "closed" -> 1 [] r.rs = "closing" -> 2
                 [] r.rs = "connecting" -> 3 [] OTHER -> 4
      rtpIdx == CASE r.rtp = "none" -> 0 [] r.rtp = "ok" -> 1 [] OTHER -> 2
      spkIdx == CASE r.spk = "none" -> 0 [] r.spk = "mic" -> 1 [] OTHER -> 2
      hbIdx == CASE Len(r.hb) = 0 -> 0
                 [] Len(r.hb) = 1 -> 1 + r.hb[1]
                 [] OTHER -> 8 + 8 * r.hb[1] + r.hb[2]
  IN (((((((rsIdx * 2 + (IF r.kind = "connect" THEN 0 ELSE 1)) * 5 + r.stage) * 2
          + (IF r.resolved THEN 1 ELSE 0)) * 2 + (IF r.timer THEN 1 ELSE 0)) * 3
          + rtpIdx) * 3 + spkIdx) * 80) + hbIdx

\* The sockets carry no name of their own: they are kept with the socket that
\* this.ws holds first and the others in the order of their keys.
Arrange(s) ==
  LET first(w) == IF s.ws = w THEN 1 ELSE 0
      p == CHOOSE f \in [ Sockets -> Sockets ] :
             /\ \A i, j \in Sockets : i # j => f[i] # f[j]
             /\ \A i, j \in Sockets : i < j =>
                   \/ first(f[i]) > first(f[j])
                   \/ /\ first(f[i]) = first(f[j])
                      /\ SockKey(s.sock[f[i]]) >= SockKey(s.sock[f[j]])
  IN [ s EXCEPT !.sock = [ i \in Sockets |-> s.sock[p[i]] ],
                !.ws = (IF s.ws = 0 THEN 0 ELSE 1) ]

\* The step's result becomes the next state.
Commit(r) ==
  \E s \in {Arrange(Forget(r))} :
  /\ s.ok
  /\ connectionState' = s.connectionState
  /\ ws' = s.ws
  /\ sock' = s.sock
  /\ sessionId' = s.sessionId
  /\ intentionalDisconnect' = s.intentionalDisconnect
  /\ reconnectAttempt' = s.reconnectAttempt
  /\ reconnectTimer' = s.reconnectTimer
  /\ orphanTimers' = s.orphanTimers
  /\ heartbeatTimer' = s.heartbeatTimer
  /\ heartbeatInterval' = s.heartbeatInterval
  /\ missedHeartbeats' = s.missedHeartbeats
  /\ ackAge' = (IF s.heartbeatTimer THEN s.ackAge ELSE 0)
  /\ hbClock' = (IF s.heartbeatTimer THEN s.hbClock ELSE 0)
  /\ ssrc' = s.ssrc
  /\ secretKey' = s.secretKey
  /\ speaking' = s.speaking
  /\ wasSpeaking' = s.wasSpeaking
  /\ localStream' = s.localStream
  /\ audioContext' = s.audioContext
  /\ audioPipeline' = s.audioPipeline
  /\ processorNode' = s.processorNode
  /\ playbackTimer' = s.playbackTimer
  /\ playbackContext' = s.playbackContext
  /\ sequenceNumber' = s.sequenceNumber
  /\ timestamp' = s.timestamp
  /\ sent' = s.sent
  /\ reconnectDelay' = (IF s.reconnectTimer THEN s.reconnectDelay ELSE 0)
  /\ users' = s.users
  /\ ssrcToUser' = s.ssrcToUser
  /\ jitterBuffers' = s.jitterBuffers
  /\ jitterInits' = s.jitterInits
  /\ jitterReplaced' = s.jitterReplaced
  /\ audioIn' = s.audioIn
  /\ gumCalls' = s.gumCalls
  /\ orphanInits' = s.orphanInits
  /\ step' = s.step
  /\ emitted' = s.emitted
  /\ reconnectLog' = s.reconnectLog
  /\ identifies' = s.identifies
  /\ connectCalled' = s.connectCalled
  /\ disconnectCalled' = s.disconnectCalled
  /\ hbLate' = s.hbLate
  /\ UNCHANGED << jb, feed, played, ap, wire >>

\* ------------------------------------------------------ observer callbacks
Ev(name) == [ ev |-> name, attempt |-> 0, max |-> 0 ]
EvReconnecting(n, m) == [ ev |-> "reconnecting", attempt |-> n, max |-> m ]
EvState(st) == [ ev |-> "state:" \o st, attempt |-> 0, max |-> 0 ]

\* options.on...?.(): the callback is made
emit(s, e) == [ s EXCEPT !.emitted = Append(@, e) ]

Emitted(e) == \E i \in DOMAIN emitted : emitted[i] = e
EmittedEv(name) == \E i \in DOMAIN emitted : emitted[i].ev = name

\* ------------------------------------------------------------ the handlers
setState(s, newState) ==
  IF s.connectionState = newState THEN s
  ELSE emit([ s EXCEPT !.connectionState = newState ], EvState(newState))

\* What the SFU does with a text message that reaches it on socket w.
ServerReceive(s, w, msg) ==
  CASE msg.op = "IDENTIFY" ->
         [ s EXCEPT !.sock[w].stage = (IF @ = 0 THEN 1 ELSE @),
                    !.identifies = @ \cup {msg.session_id} ]
    [] msg.op = "SELECT_PROTOCOL" ->
         [ s EXCEPT !.sock[w].stage = (IF @ = 2 THEN 3 ELSE @) ]
    [] msg.op = "HEARTBEAT" ->
         [ s EXCEPT !.sock[w].hb = (IF Len(@) < 2 THEN Append(@, 0) ELSE @) ]
    [] msg.op = "SPEAKING" ->
         \* the SFU notes the first Speaking it gets after its SessionDescribe
         [ s EXCEPT !.sock[w].spk =
             (IF s.sock[w].stage = 4 /\ @ = "none"
              THEN (IF msg.speaking = MICROPHONE THEN "mic" ELSE "off") ELSE @) ]
    [] OTHER -> s

send(s, msg) ==
  IF s.ws # 0 /\ s.sock[s.ws].rs = "open" THEN ServerReceive(s, s.ws, msg) ELSE s

\* an Identify that carries an id made for the connection at hand
identifyFresh(s) ==
  send(s, [ op |-> "IDENTIFY", session_id |-> "uuid-fresh" ])

identify(s) ==
  send(s, [ op |-> "IDENTIFY", session_id |-> s.sessionId ])

sendSpeaking(s, flags) ==
  send(s, [ op |-> "SPEAKING", speaking |-> flags, ssrc |-> s.ssrc ])

\* new WebSocket(url), with the handlers and the 10 s timeout of its creator
NewWebSocket(s, kind) ==
  LET free == { w \in Sockets : s.sock[w].rs = "free" } IN
  IF free = {} THEN [ s EXCEPT !.ok = FALSE ]
  ELSE LET w == CHOOSE x \in free : \A y \in free : x <= y IN
       [ s EXCEPT !.ws = w,
                  !.sock[w] = [ rs |-> "connecting", kind |-> kind, stage |-> 0,
                                resolved |-> FALSE, timer |-> TRUE, hb |-> << >>,
                                rtp |-> "none", spk |-> "none" ] ]

\* WebSocket.close()
wsClose(s, w) ==
  IF s.sock[w].rs \in {"connecting", "open"}
  THEN [ s EXCEPT !.sock[w].rs = "closing" ]
  ELSE s

startHeartbeat(s) ==
  [ s EXCEPT !.ackAge = 0, !.missedHeartbeats = 0, !.heartbeatTimer = TRUE,
             !.hbClock = s.heartbeatInterval ]

handleReady(s, data) ==
  LET s1 == [ s EXCEPT !.ssrc = data.ssrc, !.heartbeatInterval = data.heartbeat_interval ]
  IN send(startHeartbeat(s1), [ op |-> "SELECT_PROTOCOL" ])

startPlaybackTimer(s) ==
  IF s.playbackTimer THEN s ELSE [ s EXCEPT !.playbackTimer = TRUE ]

handleSessionDesc(s, data) ==
  LET s1 == [ s EXCEPT !.secretKey = data.secret_key, !.playbackContext = TRUE ]
  IN setState(startPlaybackTimer(s1), "connected")

cleanupResources(s) ==
  [ s EXCEPT !.localStream = FALSE, !.processorNode = FALSE,
             !.audioPipeline = "none",
             !.orphanInits = (IF s.audioPipeline = "created" THEN @ + 1 ELSE @),
             !.audioContext = FALSE, !.playbackTimer = FALSE,
             !.playbackContext = FALSE, !.jitterBuffers = {},
             !.users = [ u \in Users |-> 0 ],
             !.ssrcToUser = [ x \in RemoteSsrcs |-> "" ], !.secretKey = 0 ]

stopSpeaking(s) ==
  IF ~s.speaking THEN s
  ELSE LET s1 == sendSpeaking([ s EXCEPT !.speaking = FALSE ], 0) IN
       [ s1 EXCEPT !.localStream = FALSE, !.processorNode = FALSE,
                   !.audioPipeline = "none",
                   !.orphanInits = (IF s.audioPipeline = "created" THEN @ + 1 ELSE @),
                   !.audioContext = FALSE ]

\* a backoff that grows by one second per attempt
backoffDelayLinear(attempt) ==
  LET d == 1000 * attempt IN IF d < 16000 THEN d ELSE 16000

\* Math.min(1000 * Math.pow(2, attempt - 1), 16000)
backoffDelay(attempt) ==
  LET d == 1000 * 2 ^ (attempt - 1) IN IF d < 16000 THEN d ELSE 16000

\* reconnect() up to its first await: count, report, arm the backoff timer
reconnect(s) ==
  LET n == s.reconnectAttempt + 1
      s1 == emit([ s EXCEPT !.reconnectAttempt = n,
                            !.reconnectLog = Append(@, n) ],
                 EvReconnecting(n, maxReconnectAttempts))
  IN [ s1 EXCEPT !.reconnectTimer = TRUE,
                 !.reconnectDelay = backoffDelay(n),
                 !.orphanTimers = (IF s.reconnectTimer THEN @ + 1 ELSE @),
                 !.ok = s1.ok /\ (s.reconnectTimer => s.orphanTimers < MaxOrphanTimers) ]

\* reconnect() after the backoff: open the new transport
\* a reconnect that announces Connecting when its backoff has expired
reconnectAfterBackoffConnecting(s) ==
  IF s.intentionalDisconnect THEN s
  ELSE NewWebSocket(setState(s, "connecting"), "reconnect")

reconnectAfterBackoff(s) ==
  IF s.intentionalDisconnect THEN s ELSE NewWebSocket(s, "reconnect")

\* reconnect() after its handshake promise resolved
reconnectSucceeded(s) ==
  LET s1 == [ s EXCEPT !.reconnectAttempt = 0, !.missedHeartbeats = 0,
                       !.reconnectLog = << >> ]
      s2 == IF s1.wasSpeaking
            THEN sendSpeaking([ s1 EXCEPT !.speaking = TRUE ], MICROPHONE)
            ELSE s1
  IN emit(s2, Ev("connected"))

\* a catch block that tries again whatever the count of attempts
reconnectFailedNoLimit(s) ==
  IF ~s.intentionalDisconnect
  THEN reconnect(s)
  ELSE emit(cleanupResources(setState(s, "disconnected")), Ev("disconnected"))

\* reconnect()'s catch block
reconnectFailed(s) ==
  IF s.reconnectAttempt < maxReconnectAttempts /\ ~s.intentionalDisconnect
  THEN reconnect(s)
  ELSE emit(cleanupResources(setState(s, "disconnected")), Ev("disconnected"))

handleDisconnect(s) ==
  LET s1 == [ s EXCEPT !.heartbeatTimer = FALSE ] IN
  IF s1.intentionalDisconnect THEN s1
  ELSE IF s1.connectionState = "reconnecting" THEN s1
  ELSE LET s2 == [ s1 EXCEPT !.wasSpeaking = s1.speaking, !.speaking = FALSE, !.ws = 0 ] IN
       IF s2.reconnectAttempt >= maxReconnectAttempts
       THEN emit(cleanupResources(setState(s2, "disconnected")), Ev("disconnected"))
       ELSE reconnect(setState(s2, "reconnecting"))

\* connect(), called in a state other than Connecting and Connected
connect(s) ==
  LET s1 == setState([ s EXCEPT !.intentionalDisconnect = FALSE,
                                !.connectCalled = TRUE ], "connecting")
  IN NewWebSocket(s1, "connect")

disconnect(s) ==
  LET s1 == [ s EXCEPT !.intentionalDisconnect = TRUE, !.disconnectCalled = TRUE,
                       !.reconnectTimer = FALSE ]
      s2 == [ stopSpeaking(s1) EXCEPT !.heartbeatTimer = FALSE ]
      s3 == IF s2.ws # 0
            THEN [ wsClose(send(s2, [ op |-> "CLIENT_DISCONNECT" ]), s2.ws) EXCEPT !.ws = 0 ]
            ELSE s2
      s4 == [ s3 EXCEPT !.localStream = FALSE, !.playbackTimer = FALSE,
                        !.playbackContext = FALSE, !.jitterBuffers = {},
                        !.users = [ u \in Users |-> 0 ],
                        !.ssrcToUser = [ x \in RemoteSsrcs |-> "" ], !.secretKey = 0 ]
  IN emit(setState(s4, "disconnected"), Ev("disconnected"))

\* resolve() and reject() of the promise reconnect() awaits for socket w
resolveReconnect(s, w) ==
  IF s.sock[w].resolved THEN s
  ELSE reconnectSucceeded([ s EXCEPT !.sock[w].resolved = TRUE ])

rejectReconnect(s, w) ==
  IF s.sock[w].resolved THEN s
  ELSE reconnectFailed([ s EXCEPT !.sock[w].resolved = TRUE ])

\* (t + n) >>> 0 for a 32-bit t kept as its two 16-bit halves, and n < 2^16
Add32(t, n) ==
  [ hi |-> (t.hi + (t.lo + n) \div 65536) % 65536, lo |-> (t.lo + n) % 65536 ]

sendAudioPacket(s) ==
  IF s.secretKey = 0 THEN s
  ELSE LET s1 == [ s EXCEPT !.sequenceNumber = (@ + 1) % 65536,
                            !.timestamp = Add32(@, OPUS_FRAME_SIZE) ]
           header == [ seq |-> s.sequenceNumber, ts |-> s.timestamp ]
       IN IF s1.ws # 0 /\ s1.sock[s1.ws].rs = "open"
          THEN [ s1 EXCEPT !.sock[s1.ws].rtp =
                   (IF s1.sock[s1.ws].stage = 4 /\ @ # "early" THEN "ok" ELSE "early"),
                           !.sent = (IF @ = << >> THEN << header >>
                                     ELSE << @[Len(@)], header >>) ]
          ELSE s1

handleUserJoin(s, data) ==
  emit([ s EXCEPT !.users[data.user_id] = data.ssrc,
                  !.ssrcToUser[data.ssrc] = data.user_id ], Ev("userJoin"))

handleUserLeave(s, data) ==
  LET ussrc == s.users[data.user_id]
      s1 == IF ussrc # 0
            THEN [ s EXCEPT !.ssrcToUser[ussrc] = "", !.users[data.user_id] = 0,
                            !.jitterBuffers = @ \ {ussrc} ]
            ELSE s
  IN emit(s1, Ev("userLeave"))

handleMessage(s, msg) ==
  CASE msg.op = "READY" -> handleReady(s, msg.d)
    [] msg.op = "SESSION_DESC" -> handleSessionDesc(s, msg.d)
    [] msg.op = "HEARTBEAT_ACK" -> [ s EXCEPT !.ackAge = 0, !.missedHeartbeats = 0 ]
    [] msg.op = "USER_JOIN" -> handleUserJoin(s, msg.d)
    [] msg.op = "USER_LEAVE" -> handleUserLeave(s, msg.d)
    [] OTHER -> s

\* what a step has done with a binary frame: dropped it, thrown (decrypt()
\* without a key), begun the init of a JitterBuffer, or pushed the payload
audioOut(s, frame, out) == [ s EXCEPT !.audioIn = [ frame |-> frame, out |-> out ] ]

\* handleAudioPacket() up to its await, for a binary frame: short (fewer than
\* 12 bytes) or not, with the ssrc of its header, and with a payload that
\* nacl.secretbox.open accepts under the key at hand (auth) or not
handleAudioPacket(s, frame) ==
  IF frame.short THEN audioOut(s, frame, "dropped")
  ELSE LET userId == IF frame.ssrc \in RemoteSsrcs THEN s.ssrcToUser[frame.ssrc] ELSE "" IN
       IF userId = "" \/ userId = LocalUser THEN audioOut(s, frame, "dropped")
       ELSE IF s.secretKey = 0 THEN audioOut(s, frame, "threw")
       ELSE IF ~frame.auth THEN audioOut(s, frame, "dropped")
       ELSE IF frame.ssrc \in s.jitterBuffers THEN audioOut(s, frame, "pushed")
       ELSE [ audioOut(s, frame, "init") EXCEPT !.jitterInits[frame.ssrc] = @ + 1 ]

\* handleAudioPacket() after jitterBuffer.init() resolved
handleAudioPacketInitDone(s, x) ==
  [ audioOut(s, [ short |-> FALSE, ssrc |-> x, auth |-> TRUE ], "pushed")
    EXCEPT !.jitterBuffers = @ \cup {x},
           !.jitterReplaced[x] = @ \/ x \in s.jitterBuffers ]

\* setMuted(); the enabled flag of the capture tracks is not followed
setMuted(s, muted) ==
  sendSpeaking(s, IF muted THEN 0 ELSE MICROPHONE)

\* ws.onmessage as connect() sets it (setupHandler), for a text message
connectOnMessage(s, w, msg) ==
  LET s1 == handleMessage(s, msg) IN
  IF msg.op = "SESSION_DESC" /\ ~s1.sock[w].resolved
  THEN [ s1 EXCEPT !.sock[w].resolved = TRUE, !.sock[w].timer = FALSE,
                   !.reconnectAttempt = 0, !.reconnectLog = << >> ]
  ELSE s1

\* ws.onmessage as reconnect() sets it, for a text message
reconnectOnMessage(s, w, msg) ==
  LET s1 == handleMessage(s, msg) IN
  IF msg.op = "SESSION_DESC"
  THEN resolveReconnect([ s1 EXCEPT !.sock[w].timer = FALSE ], w)
  ELSE s1

onmessage(s, w, msg) ==
  IF s.sock[w].kind = "connect" THEN connectOnMessage(s, w, msg)
  ELSE reconnectOnMessage(s, w, msg)

\* ws.onerror as connect() sets it
connectOnError(s) ==
  LET s1 == emit(s, Ev("error")) IN
  IF s1.connectionState = "connecting" THEN setState(s1, "disconnected") ELSE s1

\* ws.onerror and ws.onclose as reconnect() sets them
reconnectOnClose(s, w) ==
  rejectReconnect([ s EXCEPT !.sock[w].timer = FALSE ], w)

onerror(s, w) ==
  IF s.sock[w].kind = "connect" THEN connectOnError(s) ELSE reconnectOnClose(s, w)

onclose(s, w) ==
  IF s.sock[w].kind = "connect" THEN handleDisconnect(s) ELSE reconnectOnClose(s, w)

\* the timeout callback of connect()
connectTimeout(s, w) ==
  IF ~s.sock[w].resolved THEN setState(s, "disconnected") ELSE s

\* a callback that counts a miss when the last ack is older than half an interval
heartbeatCallbackStrict(s) ==
  LET s1 == send(s, [ op |-> "HEARTBEAT" ])
      timeSinceAck == s1.ackAge
  IN IF 2 * timeSinceAck > s1.heartbeatInterval
     THEN LET s2 == [ s1 EXCEPT !.missedHeartbeats = @ + 1 ] IN
          IF s2.missedHeartbeats >= 2 /\ s2.ws # 0 THEN wsClose(s2, s2.ws) ELSE s2
     ELSE s1

\* the setInterval callback of startHeartbeat()
heartbeatCallback(s) ==
  LET s1 == send(s, [ op |-> "HEARTBEAT" ])
      timeSinceAck == s1.ackAge
  IN IF 2 * timeSinceAck > 3 * s1.heartbeatInterval
     THEN LET s2 == [ s1 EXCEPT !.missedHeartbeats = @ + 1 ] IN
          IF s2.missedHeartbeats >= 2 /\ s2.ws # 0 THEN wsClose(s2, s2.ws) ELSE s2
     ELSE s1

\* startSpeaking() after getUserMedia resolved, up to the await of pipeline.init()
startSpeakingGotStream(s) ==
  [ s EXCEPT !.localStream = TRUE, !.audioContext = TRUE, !.audioPipeline = "created",
             !.orphanInits = (IF s.audioPipeline = "created" THEN @ + 1 ELSE @) ]

\* setupAudioPipeline() after pipeline.init() resolved, and the rest of startSpeaking()
startSpeakingPipelineReady(s) ==
  IF s.audioContext /\ s.localStream
  THEN sendSpeaking([ s EXCEPT !.processorNode = TRUE, !.speaking = TRUE ], MICROPHONE)
  ELSE emit(s, Ev("error"))

\* processorNode.onaudioprocess, for a block that yields one Opus packet
onaudioprocess(s) ==
  IF ~s.speaking \/ s.secretKey = 0 \/ s.audioPipeline # "ready" THEN s
  ELSE sendAudioPacket(s)

\* ------------------------------------------------------------------ Init
InitSession ==
  /\ connectionState = "disconnected"
  /\ ws = 0
  /\ sock = [ w \in Sockets |-> FreeSock ]
  /\ sessionId \in SessionIds
  /\ intentionalDisconnect = FALSE
  /\ reconnectAttempt = 0
  /\ reconnectTimer = FALSE
  /\ orphanTimers = 0
  /\ heartbeatTimer = FALSE
  /\ heartbeatInterval = 0
  /\ missedHeartbeats = 0
  /\ ackAge = 0
  /\ hbClock = 0
  /\ ssrc = 0
  /\ secretKey = 0
  /\ speaking = FALSE
  /\ wasSpeaking = FALSE
  /\ localStream = FALSE
  /\ audioContext = FALSE
  /\ audioPipeline = "none"
  /\ processorNode = FALSE
  /\ playbackTimer = FALSE
  /\ playbackContext = FALSE
  /\ sequenceNumber = 0
  /\ timestamp = [ hi |-> 0, lo |-> 0 ]
  /\ sent = << >>
  /\ reconnectDelay = 0
  /\ users = [ u \in Users |-> 0 ]
  /\ ssrcToUser = [ x \in RemoteSsrcs |-> "" ]
  /\ jitterBuffers = {}
  /\ jitterInits = [ x \in RemoteSsrcs |-> 0 ]
  /\ jitterReplaced = [ x \in RemoteSsrcs |-> FALSE ]
  /\ audioIn = NoAudio
  /\ gumCalls = 0
  /\ orphanInits = 0
  /\ step = [ in |-> "new", kind |-> "none", cur |-> FALSE, pending |-> FALSE ]
  /\ emitted = << >>
  /\ reconnectLog = << >>
  /\ identifies = {}
  /\ connectCalled = FALSE
  /\ disconnectCalled = FALSE
  /\ hbLate = FALSE

\* new AudioPipeline(noiseSuppressionEnabled), before init(): no Denoiser, no
\* encoder. inputBuffer is the length of the Denoiser's inputBuffer. op and
\* input tell the last call and the length of its block, ran and fed what a
\* process() did: the stage it ran and the samples it gave the encoder;
\* loadFailed tells that the Denoiser could not be loaded.
NewAudioPipeline(noiseSuppressionEnabled) ==
  [ noiseSuppressionEnabled |-> noiseSuppressionEnabled, rnnoise |-> "null",
    inputBuffer |-> 0, opusEncoder |-> FALSE, initialized |-> FALSE,
    op |-> "new", input |-> 0, ran |-> "none", fed |-> 0, loadFailed |-> FALSE ]

\* no packet is on its way: at is "idle", "sent" or "received"; header and
\* nonce are the sender's, data is what travels, changes counts the bytes
\* changed in transit, rnonce and opened are the receiver's nonce and result
NoWire ==
  [ at |-> "idle", header |-> << >>, nonce |-> << >>,
    data |-> [ header |-> << >>, box |-> [ m |-> "null", n |-> << >>, k |-> 0 ] ],
    changes |-> 0, rnonce |-> << >>, opened |-> "null" ]

\* new JitterBuffer(), before init()
NewJitterBuffer ==
  [ buffer |-> << >>, nextSequence |-> -1, lastPlayedSequence |-> -1,
    consecutivePLC |-> 0, initialized |-> FALSE ]

\* nothing is fed to the JitterBuffer
NoFeed == [ start |-> 1, missing |-> 0, pending |-> {}, inOrder |-> TRUE ]

Init ==
  /\ InitSession
  /\ jb = NewJitterBuffer
  /\ feed = NoFeed
  /\ played = << >>
  /\ ap = NewAudioPipeline(TRUE)
  /\ wire = NoWire

\* ------------------------------------------------------- the JitterBuffer
\* sequenceDiff(a, b): the difference of two sequence numbers across the wrap
sequenceDiff(a, b) ==
  LET diff == a - b IN
  IF diff > 32768 THEN diff - 65536
  ELSE IF diff < -32768 THEN diff + 65536
  ELSE diff

\* Math.ceil(MAX_BUFFER_MS / FRAME_DURATION_MS)
maxPackets == (MAX_BUFFER_MS + FRAME_DURATION_MS - 1) \div FRAME_DURATION_MS

\* buffer.has(sequence); the buffer is kept as the sequence numbers of its
\* packets in the order of their receivedAt, oldest first
InBuffer(b, sequence) == \E i \in DOMAIN b.buffer : b.buffer[i] = sequence

Remove(q, sequence) == SelectSeq(q, LAMBDA e : e # sequence)

\* push(sequence, timestamp, opusData)
push(b, sequence) ==
  IF ~b.initialized THEN b
  ELSE LET b1 == IF b.nextSequence = -1 THEN [ b EXCEPT !.nextSequence = sequence ] ELSE b
       IN IF /\ sequence < b1.nextSequence
             /\ b1.lastPlayedSequence # -1
             /\ sequenceDiff(sequence, b1.lastPlayedSequence) < 0
          THEN b1
          ELSE LET kept == IF Len(b1.buffer) >= maxPackets THEN Tail(b1.buffer)
                           ELSE b1.buffer
               IN [ b1 EXCEPT !.buffer = Append(Remove(kept, sequence), sequence) ]

\* isReady()
isReady(b) ==
  /\ b.initialized
  /\ Len(b.buffer) # 0
  /\ Len(b.buffer) * FRAME_DURATION_MS >= MIN_BUFFER_MS

\* hasFuturePackets()
hasFuturePackets(b) ==
  \E i \in DOMAIN b.buffer : sequenceDiff(b.buffer[i], b.nextSequence) > 0

\* the expected sequence number is passed
Advance(b) ==
  [ b EXCEPT !.lastPlayedSequence = b.nextSequence,
             !.nextSequence = (b.nextSequence + 1) % 65536 ]

\* pop(): the buffer after the call and what the call returns: nothing
\* ("null"), the decoded packet, a concealment frame of decodeMissing()
\* ("plc") or silence; the decoder is taken not to fail
pop(b) ==
  IF ~b.initialized THEN [ b |-> b, out |-> "null", seq |-> -1 ]
  ELSE IF b.lastPlayedSequence = -1 /\ ~isReady(b) THEN [ b |-> b, out |-> "null", seq |-> -1 ]
  ELSE IF InBuffer(b, b.nextSequence)
  THEN [ b |-> [ Advance(b) EXCEPT !.buffer = Remove(b.buffer, b.nextSequence),
                                   !.consecutivePLC = 0 ],
         out |-> "decoded", seq |-> b.nextSequence ]
  ELSE LET b1 == [ b EXCEPT !.consecutivePLC = @ + 1 ] IN
       IF ~hasFuturePackets(b1) /\ Len(b1.buffer) = 0
       THEN [ b |-> b1, out |-> "null", seq |-> -1 ]
       ELSE IF b1.consecutivePLC > MAX_MISSING_FRAMES
       THEN [ b |-> Advance(b1), out |-> "silence", seq |-> b1.nextSequence ]
       ELSE [ b |-> Advance(b1), out |-> "plc", seq |-> b1.nextSequence ]

\* the sequence number of the i-th packet of the sender's run
SeqOf(f, i) == (f.start + i - 1) % 65536

\* The runs a sender emits: RunLen consecutive sequence numbers from a start,
\* all of which arrive, or all but one that is neither the first nor the last.
Feeds ==
  { [ start |-> s, missing |-> m, pending |-> (1..RunLen) \ {m},
      inOrder |-> TRUE ] : s \in RunStarts, m \in {0} \cup (2..(RunLen - 1)) }

\* a session whose JitterBuffer for one sender is initialised
InitJitter ==
  /\ InitSession
  /\ jb = [ NewJitterBuffer EXCEPT !.initialized = TRUE ]
  /\ feed \in Feeds
  /\ played = << >>
  /\ ap = NewAudioPipeline(TRUE)
  /\ wire = NoWire

\* packet i of the run arrives: handleAudioPacket() pushes it
JbPush(i) ==
  /\ i \in feed.pending
  /\ jb' = push(jb, SeqOf(feed, i))
  /\ feed' = [ feed EXCEPT !.pending = @ \ {i},
                           !.inOrder = @ /\ \A j \in feed.pending : i <= j ]
  /\ UNCHANGED << sessionVars, played, ap, wire >>

\* the playback timer polls the buffer: processPlayback() calls pop()
JbPop ==
  /\ Len(played) < MaxPlayed
  /\ jb.consecutivePLC < MaxPLC
  /\ \E r \in {pop(jb)} :
       /\ jb' = r.b
       /\ played' = IF r.out = "null" THEN played
                    ELSE Append(played, [ out |-> r.out, seq |-> r.seq,
                                          consecutivePLC |-> r.b.consecutivePLC ])
  /\ UNCHANGED << sessionVars, feed, ap, wire >>

\* ------------------------------------------------------ the audio packet
\* new Uint8Array(n)
Zeros(n) == [ i \in 1..n |-> 0 ]

\* the 12 bytes sendAudioPacket() writes: version, payload type, and the
\* big-endian sequence number, timestamp (as its halves) and ssrc
rtpHeader(sequence, ts, x) ==
  << 128, 120, sequence \div 256, sequence % 256,
     ts.hi \div 256, ts.hi % 256, ts.lo \div 256, ts.lo % 256,
     (x \div 16777216) % 256, (x \div 65536) % 256, (x \div 256) % 256, x % 256 >>

\* nacl.secretbox and nacl.secretbox.open: a box opens under the nonce and
\* the key it was sealed with, and under no other
secretbox(m, nonce, key) == [ m |-> m, n |-> nonce, k |-> key ]
secretboxOpen(box, nonce, key) ==
  IF box.n = nonce /\ box.k = key THEN box.m ELSE "null"

\* sendAudioPacket(): the nonce is a 24-byte array with the header set at 0
sendNonce(header) ==
  [ i \in 1..24 |-> IF i <= Len(header) THEN header[i] ELSE Zeros(24)[i] ]

\* handleAudioPacket(): the nonce is a 24-byte array with data.slice(0, 12) set at 0
recvNonceFixed(data) == Zeros(24)
recvNonce(data) ==
  [ i \in 1..24 |-> IF i <= 12 THEN data[i] ELSE Zeros(24)[i] ]

\* the packet sendAudioPacket() gives to ws.send: header, then the box
audioPacket(sequence, ts, x, opusData, key) ==
  LET header == rtpHeader(sequence, ts, x) IN
  [ header |-> header, box |-> secretbox(opusData, sendNonce(header), key) ]

\* view.getUint32(8, false) of a received packet, as its two 16-bit halves
ssrcOf(data) ==
  [ hi |-> data[9] * 256 + data[10], lo |-> data[11] * 256 + data[12] ]

\* this.ssrcToUser.get(ssrc) of a receiver that knows the senders RemoteSsrcs
KnownSender(x) == x.hi = 0 /\ x.lo \in RemoteSsrcs

\* handleAudioPacket() of a receiver that holds `key` and knows the senders
\* RemoteSsrcs, up to the lookup of the JitterBuffer: the Opus payload, or
\* "null" when the packet is dropped
openAudioPacket(data, key) ==
  IF Len(data.header) < 12 THEN "null"
  ELSE IF ~KnownSender(ssrcOf(data.header)) THEN "null"
  ELSE secretboxOpen(data.box, recvNonce(data.header), key)

\* sendAudioPacket() of a sender that holds `key` puts a packet on the wire
WireSend(sequence, ts, x, opusData, key) ==
  /\ wire.at = "idle"
  /\ wire' = [ NoWire EXCEPT !.at = "sent",
                             !.header = rtpHeader(sequence, ts, x),
                             !.nonce = sendNonce(rtpHeader(sequence, ts, x)),
                             !.data = audioPacket(sequence, ts, x, opusData, key) ]
  /\ UNCHANGED << sessionVars, jb, feed, played, ap >>

\* byte i of the header is changed to b on the way
WireTamper(i, b) ==
  /\ wire.at = "sent"
  /\ wire.changes < MaxTamper
  /\ wire.data.header[i] # b
  /\ wire' = [ wire EXCEPT !.data.header[i] = b, !.changes = @ + 1 ]
  /\ UNCHANGED << sessionVars, jb, feed, played, ap >>

\* the packet reaches a receiver that holds `key`
WireRecv(key) ==
  /\ wire.at = "sent"
  /\ wire' = [ wire EXCEPT !.at = "received",
                           !.rnonce = recvNonce(wire.data.header),
                           !.opened = openAudioPacket(wire.data, key) ]
  /\ UNCHANGED << sessionVars, jb, feed, played, ap >>

\* ------------------------------------------------------ the AudioPipeline
\* AudioPipeline.init(); rnnoiseLoads tells whether RNNoiseProcessor.init()
\* resolves. The flag is read before the first await.
init(p, rnnoiseLoads) ==
  IF p.initialized THEN [ p EXCEPT !.op = "init" ]
  ELSE [ p EXCEPT !.rnnoise = (IF p.noiseSuppressionEnabled /\ rnnoiseLoads
                               THEN "ready" ELSE @),
                  !.loadFailed = @ \/ (p.noiseSuppressionEnabled /\ ~rnnoiseLoads),
                  !.inputBuffer = (IF p.noiseSuppressionEnabled /\ rnnoiseLoads THEN 0 ELSE @),
                  !.opusEncoder = TRUE, !.initialized = TRUE, !.op = "init" ]

\* RNNoiseProcessor.process() on a block of n samples with `buffered` samples
\* in its inputBuffer: the samples it returns and those it keeps
rnnoiseProcess(buffered, n) ==
  [ out |-> ((buffered + n) \div RNNOISE_FRAME_SIZE) * RNNOISE_FRAME_SIZE,
    buffered |-> (buffered + n) % RNNOISE_FRAME_SIZE ]

\* AudioPipeline.process() on a block of n samples
process(p, n) ==
  LET q == [ p EXCEPT !.op = "process", !.input = n ] IN
  IF ~p.initialized \/ ~p.opusEncoder THEN [ q EXCEPT !.ran = "none", !.fed = 0 ]
  ELSE IF p.rnnoise = "ready" /\ p.noiseSuppressionEnabled
       THEN LET d == rnnoiseProcess(p.inputBuffer, n) IN
            [ q EXCEPT !.inputBuffer = d.buffered, !.ran = "denoiser", !.fed = d.out ]
       ELSE [ q EXCEPT !.ran = "passthrough", !.fed = n ]

\* AudioPipeline.setNoiseSuppression()
setNoiseSuppression(p, enabled) ==
  [ p EXCEPT !.noiseSuppressionEnabled = enabled, !.op = "setNoiseSuppression" ]

\* AudioPipeline.destroy()
destroy(p) ==
  [ p EXCEPT !.rnnoise = "null", !.inputBuffer = 0, !.opusEncoder = FALSE,
             !.initialized = FALSE, !.op = "destroy" ]

\* a session with one AudioPipeline, built with the Denoiser enabled or not
InitPipeline ==
  /\ InitSession
  /\ jb = NewJitterBuffer
  /\ feed = NoFeed
  /\ played = << >>
  /\ ap \in { NewAudioPipeline(e) : e \in BOOLEAN }
  /\ wire = NoWire

ApInit(rnnoiseLoads) ==
  /\ ap' = init(ap, rnnoiseLoads)
  /\ UNCHANGED << sessionVars, jb, feed, played, wire >>

\* the capture callback hands a block to the pipeline
ApProcess(n) ==
  /\ ap' = process(ap, n)
  /\ UNCHANGED << sessionVars, jb, feed, played, wire >>

ApSetNoiseSuppression(enabled) ==
  /\ ap' = setNoiseSuppression(ap, enabled)
  /\ UNCHANGED << sessionVars, jb, feed, played, wire >>

ApDestroy ==
  /\ ap' = destroy(ap)
  /\ UNCHANGED << sessionVars, jb, feed, played, wire >>

\* --------------------------------------------------------------- actions
\* the application calls connect()
Connect ==
  /\ connectionState \notin {"connecting", "connected"}
  /\ Commit(connect(ApiTask("connect")))

\* the application calls connect(), as the call store does: once on an
\* instance, before any disconnect()
ConnectOnce ==
  /\ ~connectCalled
  /\ ~disconnectCalled
  /\ Connect

\* the application calls disconnect()
Disconnect ==
  /\ TRUE
  /\ Commit(disconnect(ApiTask("disconnect")))

\* the open event of socket w
WsOpen(w) ==
  /\ sock[w].rs = "connecting"
  /\ Commit(identify([ SockTask("open", w) EXCEPT !.sock[w].rs = "open" ]))

\* socket w closes: the close event, after an error event when the closure is not clean
WsClosed(w, err) ==
  /\ sock[w].rs \in {"connecting", "open", "closing"}
  /\ sock[w].rs = "connecting" => err
  /\ LET s0 == [ SockTask("close", w) EXCEPT !.sock[w].rs = "closed" ]
         s1 == IF err THEN onerror(s0, w) ELSE s0
     IN Commit(onclose(s1, w))

\* Ready arrives on socket w, in answer to Identify
RecvReady(w) ==
  /\ sock[w].rs = "open"
  /\ sock[w].stage = 1
  /\ \E id \in LocalSsrcs :
       Commit(onmessage([ SockTask("READY", w) EXCEPT !.sock[w].stage = 2 ], w,
                        [ op |-> "READY",
                          d |-> [ ssrc |-> id, heartbeat_interval |-> HeartbeatInterval ] ]))

\* SessionDescribe arrives on socket w, in answer to SelectProtocol
RecvSessionDesc(w) ==
  /\ sock[w].rs = "open"
  /\ sock[w].stage = 3
  /\ Commit(onmessage([ SockTask("SESSION_DESC", w) EXCEPT !.sock[w].stage = 4 ], w,
                      [ op |-> "SESSION_DESC", d |-> [ secret_key |-> 1 ] ]))

\* HeartbeatAck arrives on socket w, in answer to its oldest unanswered Heartbeat
RecvHeartbeatAck(w) ==
  /\ sock[w].rs = "open"
  /\ sock[w].hb # << >>
  /\ Commit(onmessage([ SockTask("HEARTBEAT_ACK", w) EXCEPT !.sock[w].hb = Tail(@) ], w,
                      [ op |-> "HEARTBEAT_ACK" ]))

\* the heartbeat timer fires
HeartbeatTick ==
  /\ heartbeatTimer
  /\ hbClock = 0
  /\ 2 * ackAge > 3 * heartbeatInterval => missedHeartbeats < MaxMissed
  /\ Commit(heartbeatCallback([ ApiTask("heartbeat") EXCEPT !.hbClock = heartbeatInterval ]))

\* half a heartbeat interval passes
TimeAdvance ==
  /\ heartbeatTimer
  /\ hbClock > 0
  /\ LET aged == [ w \in Sockets |->
                   [ sock[w] EXCEPT !.hb = [ i \in DOMAIN @ |->
                       IF @[i] > heartbeatInterval THEN @[i] ELSE @[i] + 1 ] ] ]
         late == \E w \in Sockets : \E i \in DOMAIN aged[w].hb :
                   aged[w].hb[i] > heartbeatInterval
     IN Commit([ ApiTask("time") EXCEPT
                   !.hbClock = @ - 1,
                   !.ackAge = (IF @ < 2 * heartbeatInterval THEN @ + 1 ELSE @),
                   !.sock = aged,
                   !.hbLate = @ \/ late ])

\* the 10 s timeout of connect() fires
ConnectTimeout(w) ==
  /\ sock[w].rs # "free"
  /\ sock[w].kind = "connect"
  /\ sock[w].timer
  /\ Commit(connectTimeout([ SockTask("timeout", w) EXCEPT !.sock[w].timer = FALSE ], w))

\* the 10 s timeout of a reconnect attempt fires
ReconnectTimeout(w) ==
  /\ sock[w].rs # "free"
  /\ sock[w].kind = "reconnect"
  /\ sock[w].timer
  /\ Commit(rejectReconnect([ SockTask("timeout", w) EXCEPT !.sock[w].timer = FALSE ], w))

\* the backoff timer that this.reconnectTimer holds fires
BackoffExpire ==
  /\ reconnectTimer
  /\ Commit(reconnectAfterBackoff([ ApiTask("backoff") EXCEPT !.reconnectTimer = FALSE ]))

\* a backoff timer of an earlier reconnect() call fires
OrphanBackoffExpire ==
  /\ orphanTimers > 0
  /\ Commit(reconnectAfterBackoff([ ApiTask("backoff") EXCEPT !.orphanTimers = @ - 1 ]))

\* the application calls startSpeaking()
StartSpeaking ==
  /\ ~speaking
  /\ gumCalls + orphanInits + (IF audioPipeline = "created" THEN 1 ELSE 0) < MaxStartCalls
  /\ Commit([ ApiTask("startSpeaking") EXCEPT !.gumCalls = @ + 1 ])

\* getUserMedia settles
GetUserMedia(granted) ==
  /\ gumCalls > 0
  /\ LET s0 == [ ApiTask("getUserMedia") EXCEPT !.gumCalls = @ - 1 ] IN
     Commit(IF granted THEN startSpeakingGotStream(s0) ELSE emit(s0, Ev("error")))

\* init() of the pipeline that this.audioPipeline holds settles
PipelineInit(success) ==
  /\ audioPipeline = "created"
  /\ Commit(IF success
            THEN startSpeakingPipelineReady([ ApiTask("pipelineInit") EXCEPT
                                                !.audioPipeline = "ready" ])
            ELSE emit([ ApiTask("pipelineInit") EXCEPT !.audioPipeline = "failed" ],
                      Ev("error")))

\* init() of a pipeline that this.audioPipeline holds no more settles
OrphanPipelineInit(success) ==
  /\ orphanInits > 0
  /\ LET s0 == [ ApiTask("pipelineInit") EXCEPT !.orphanInits = @ - 1 ] IN
     Commit(IF success THEN startSpeakingPipelineReady(s0) ELSE emit(s0, Ev("error")))

\* the application calls stopSpeaking()
StopSpeaking ==
  /\ speaking
  /\ Commit(stopSpeaking(ApiTask("stopSpeaking")))

\* the capture callback runs with a block that yields an Opus packet
AudioProcess ==
  /\ processorNode
  /\ speaking /\ secretKey # 0 /\ audioPipeline = "ready"
  /\ sequenceNumber < MaxPackets
  /\ Commit(onaudioprocess(ApiTask("audioprocess")))

\* The binary frames the transport can deliver: one of fewer than 12 bytes,
\* and full ones for every ssrc, with a payload that authenticates or not.
Frames ==
  { [ short |-> TRUE, ssrc |-> UnknownSsrc, auth |-> FALSE ] }
  \cup [ short : {FALSE}, ssrc : RemoteSsrcs \cup {UnknownSsrc}, auth : BOOLEAN ]

\* the application calls setMuted()
SetMuted(muted) ==
  /\ connectCalled
  /\ Commit(setMuted(ApiTask("setMuted"), muted))

\* UserJoin arrives on socket w
UserJoin(w, u, x) ==
  /\ sock[w].rs = "open"
  /\ sock[w].stage >= 1
  /\ Commit(onmessage(SockTask("USER_JOIN", w), w,
                      [ op |-> "USER_JOIN", d |-> [ user_id |-> u, ssrc |-> x ] ]))

\* UserLeave arrives on socket w
UserLeave(w, u) ==
  /\ sock[w].rs = "open"
  /\ sock[w].stage >= 1
  /\ Commit(onmessage(SockTask("USER_LEAVE", w), w,
                      [ op |-> "USER_LEAVE", d |-> [ user_id |-> u ] ]))

\* a binary frame arrives on socket w
RecvAudio(w, frame) ==
  /\ sock[w].rs = "open"
  /\ sock[w].stage >= 1
  /\ frame.ssrc \in RemoteSsrcs => jitterInits[frame.ssrc] < MaxJitterInits
  /\ Commit(handleAudioPacket(SockTask("audio", w), frame))

\* a binary frame of a sender's burst arrives on socket w: earlier frames of
\* the burst may still wait for jitterBuffer.init()
RecvAudioBurst(w, frame) ==
  /\ sock[w].rs = "open"
  /\ sock[w].stage >= 1
  /\ frame.ssrc \in RemoteSsrcs
  /\ jitterInits[frame.ssrc] < MaxBurst
  /\ Commit(handleAudioPacket(SockTask("audio", w), frame))

\* jitterBuffer.init() of a handleAudioPacket call settles
JitterInitDone(x) ==
  /\ jitterInits[x] > 0
  /\ Commit(handleAudioPacketInitDone([ ApiTask("jitterInit") EXCEPT !.jitterInits[x] = @ - 1 ], x))

\* ------------------------------------------------------- specifications
\* The transports' events and the backoff timer.
Handshake ==
  \/ \E w \in Sockets : WsOpen(w)
  \/ \E w \in Sockets, err \in BOOLEAN : WsClosed(w, err)
  \/ \E w \in Sockets : RecvReady(w)
  \/ \E w \in Sockets : RecvSessionDesc(w)
  \/ BackoffExpire

\* The 10 s timers of connect() and of the reconnect attempts.
Timeouts ==
  \/ \E w \in Sockets : ConnectTimeout(w)
  \/ \E w \in Sockets : ReconnectTimeout(w)

\* The heartbeat timer, the passing of time and the SFU's acknowledgements.
Heartbeats ==
  \/ HeartbeatTick
  \/ TimeAdvance
  \/ \E w \in Sockets : RecvHeartbeatAck(w)

\* The microphone, the audio pipeline and the capture callback.
Speaking ==
  \/ StartSpeaking
  \/ \E granted \in BOOLEAN : GetUserMedia(granted)
  \/ \E success \in BOOLEAN : PipelineInit(success)
  \/ \E success \in BOOLEAN : OrphanPipelineInit(success)
  \/ StopSpeaking
  \/ AudioProcess

\* The session's life cycle, with connect() and disconnect() called in any
\* order the code lets through.
Next ==
  \/ Connect
  \/ Disconnect
  \/ Handshake
  \/ Timeouts
  \/ OrphanBackoffExpire

Spec == Init /\ [][Next]_vars

\* The life cycle as the call store drives it: connect() once on an instance.
NextCall ==
  \/ ConnectOnce
  \/ Disconnect
  \/ Handshake
  \/ Timeouts

SpecCall == Init /\ [][NextCall]_vars

\* A session with its heartbeat running.
NextHeartbeat ==
  \/ ConnectOnce
  \/ Handshake
  \/ Heartbeats

SpecHeartbeat == Init /\ [][NextHeartbeat]_vars

\* A session with the microphone in use.
NextSpeak ==
  \/ ConnectOnce
  \/ Disconnect
  \/ Handshake
  \/ Speaking

SpecSpeak == Init /\ [][NextSpeak]_vars

\* A session that reconnects, with its timeouts, while the microphone is in
\* use and the application mutes and unmutes.
NextResume ==
  \/ ConnectOnce
  \/ Handshake
  \/ Timeouts
  \/ StartSpeaking
  \/ \E granted \in BOOLEAN : GetUserMedia(granted)
  \/ \E success \in BOOLEAN : PipelineInit(success)
  \/ \E muted \in BOOLEAN : SetMuted(muted)

SpecResume == Init /\ [][NextResume]_vars

\* A session that is torn down while the microphone, a remote participant
\* and inbound audio are in use; after disconnect() the application calls
\* nothing but disconnect().
NextTeardown ==
  \/ ConnectOnce
  \/ Disconnect
  \/ Handshake
  \/ ~disconnectCalled /\ StartSpeaking
  \/ \E granted \in BOOLEAN : GetUserMedia(granted)
  \/ \E success \in BOOLEAN : PipelineInit(success)
  \/ \E success \in BOOLEAN : OrphanPipelineInit(success)
  \/ \E w \in Sockets, x \in RemoteSsrcs : UserJoin(w, "A", x)
  \/ \E w \in Sockets, f \in Frames : RecvAudio(w, f)
  \/ \E x \in RemoteSsrcs : JitterInitDone(x)

SpecTeardown == Init /\ [][NextTeardown]_vars

\* A session in a room, from connect() through its handshake: participants
\* join and leave, and binary frames arrive.
NextRoom ==
  \/ ConnectOnce
  \/ \E w \in Sockets : WsOpen(w)
  \/ \E w \in Sockets : RecvReady(w)
  \/ \E w \in Sockets : RecvSessionDesc(w)
  \/ \E w \in Sockets, u \in Users, x \in RemoteSsrcs : UserJoin(w, u, x)
  \/ \E w \in Sockets, u \in Users : UserLeave(w, u)
  \/ \E w \in Sockets, f \in Frames : RecvAudio(w, f)
  \/ \E x \in RemoteSsrcs : JitterInitDone(x)

SpecRoom == Init /\ [][NextRoom]_vars

\* One JitterBuffer, fed by one sender and polled by the playback timer.
NextJitter ==
  \/ \E i \in 1..RunLen : JbPush(i)
  \/ JbPop

SpecJitter == InitJitter /\ [][NextJitter]_vars

\* A session in a room whose transport drops and is replaced by the
\* reconnect loop.
NextRejoin ==
  \/ ConnectOnce
  \/ Handshake
  \/ \E w \in Sockets, x \in RemoteSsrcs : UserJoin(w, "A", x)
  \/ \E w \in Sockets : UserLeave(w, "A")

SpecRejoin == Init /\ [][NextRejoin]_vars

\* A session in a room that receives the first packets of a sender in a burst.
NextStream ==
  \/ ConnectOnce
  \/ \E w \in Sockets : WsOpen(w)
  \/ \E w \in Sockets : RecvReady(w)
  \/ \E w \in Sockets : RecvSessionDesc(w)
  \/ \E w \in Sockets, u \in Users, x \in RemoteSsrcs : UserJoin(w, u, x)
  \/ \E w \in Sockets, f \in Frames : RecvAudioBurst(w, f)
  \/ \E x \in RemoteSsrcs : JitterInitDone(x)

SpecStream == Init /\ [][NextStream]_vars

\* One AudioPipeline: built, initialised, fed with capture blocks, switched.
NextPipeline ==
  \/ \E l \in BOOLEAN : ApInit(l)
  \/ \E n \in Blocks : ApProcess(n)
  \/ \E e \in BOOLEAN : ApSetNoiseSuppression(e)
  \/ ApDestroy

SpecPipeline == InitPipeline /\ [][NextPipeline]_vars

\* One audio packet from a sender to a receiver, over a transport that may
\* change header bytes.
NextWire ==
  \/ \E q \in WireSequences, ts \in WireTimestamps, x \in RemoteSsrcs,
        m \in OpusPayloads, k \in Keys : WireSend(q, ts, x, m, k)
  \/ \E i \in 1..12, b \in TamperBytes : WireTamper(i, b)
  \/ \E k \in Keys : WireRecv(k)

SpecWire == Init /\ [][NextWire]_vars

\* ------------------------------------------------------------ properties
\* what the step that leads to the next state has emitted
EmittedNext(name) == \E i \in DOMAIN emitted' : emitted'[i].ev = name

\* the next state is reached by the close event of the transport this.ws holds
CurrentTransportCloses == step'.in = "close" /\ step'.cur

\* C1: whenever the transport closes while the session is Connected,
\* disconnect() has not been called and reconnect attempts remain, the session
\* moves to Reconnecting and the observer receives reconnecting(attempt, max),
\* whichever of connect() and reconnect() has opened the transport.
C1_CloseWhileConnectedReconnects ==
  [][ ( /\ connectionState = "connected"
        /\ ~disconnectCalled
        /\ reconnectAttempt < maxReconnectAttempts
        /\ CurrentTransportCloses )
      => ( /\ connectionState' = "reconnecting"
           /\ \E i \in DOMAIN emitted' :
                emitted'[i] = EvReconnecting(reconnectAttempt + 1, maxReconnectAttempts) )
    ]_vars

\* the next state is reached by the failure of a reconnect attempt: its
\* transport closes, or its 10 s pass, before its SessionDescribe
ReconnectAttemptFails ==
  /\ step'.kind = "reconnect"
  /\ step'.pending
  /\ step'.in \in {"close", "timeout"}

\* C2: the attempts reported since the last completed handshake are 1, 2, ...
\* in that order and never more than maxReconnectAttempts = 5 of them; when
\* the fifth attempt fails the state becomes Disconnected, disconnected is
\* emitted, and no further attempt is announced or scheduled.
C2_FiveAttemptsThenDisconnected ==
  [][ /\ Len(reconnectLog') <= maxReconnectAttempts
      /\ \A i \in DOMAIN reconnectLog' : reconnectLog'[i] = i
      /\ ( ReconnectAttemptFails /\ reconnectAttempt = maxReconnectAttempts )
         => ( /\ connectionState' = "disconnected"
              /\ EmittedNext("disconnected")
              /\ ~EmittedNext("reconnecting")
              /\ ~reconnectTimer'
              /\ reconnectLog' = reconnectLog )
    ]_vars

\* C2's case: the fifth attempt has just failed, after reconnecting 1..5
C2_Witness ==
  /\ reconnectLog = << 1, 2, 3, 4, 5 >>
  /\ step.kind = "reconnect" /\ step.pending /\ step.in \in {"close", "timeout"}
  /\ connectionState = "disconnected"
  /\ EmittedEv("disconnected")

\* the next state is reached by the reconnect loop opening a transport
ReconnectOpensTransport ==
  /\ step'.in = "backoff"
  /\ ws' # 0
  /\ sock'[ws'].kind = "reconnect"
  /\ sock'[ws'].rs = "connecting"

\* C3: once disconnect() has been called, the reconnect loop opens no
\* transport and no reconnecting notification is emitted.
C3_NoReconnectAfterDisconnect ==
  [][ disconnectCalled => ( ~ReconnectOpensTransport /\ ~EmittedNext("reconnecting") ) ]_vars

\* C4: no binary frame goes out on a transport before Ready and
\* SessionDescribe have both arrived on that same transport.
C4_NoAudioBeforeSessionDescribe ==
  \A w \in Sockets : sock[w].rtp # "early"

\* C5: the session_id of the instance never changes, and every Identify the
\* SFU has received, on the first transport and on those of the reconnect
\* attempts, carries it.
C5_OneSessionId ==
  [][ sessionId' = sessionId /\ identifies' \subseteq {sessionId} ]_vars

\* C5's case: Identify has been sent on the transport of a reconnect attempt
C5_Witness ==
  /\ identifies = {sessionId}
  /\ \E w \in Sockets : sock[w].kind = "reconnect" /\ sock[w].stage >= 1

\* the next state is reached by a heartbeat tick that finds the second miss
SecondMiss ==
  /\ step'.in = "heartbeat"
  /\ missedHeartbeats' >= 2
  /\ missedHeartbeats' > missedHeartbeats

\* C6: on an established connection the second missed heartbeat closes the
\* transport, and when that transport has closed the session is Reconnecting,
\* whichever of connect() and reconnect() has opened it.
C6_HeartbeatTimeoutReconnects ==
  [][ /\ ( SecondMiss /\ connectionState = "connected" /\ ws # 0 /\ sock[ws].rs = "open" )
         => ( ws' # 0 /\ sock'[ws'].rs = "closing" )
      /\ ( /\ connectionState = "connected"
           /\ missedHeartbeats >= 2
           /\ reconnectAttempt < maxReconnectAttempts
           /\ CurrentTransportCloses )
         => connectionState' = "reconnecting"
    ]_vars

\* the transport that connect() has opened is there and nothing has closed it
TransportUp ==
  \E w \in Sockets : sock[w].kind = "connect" /\ sock[w].rs \in {"connecting", "open"}

\* C7: as long as the network does not close the transport and no Heartbeat
\* stays unacknowledged for more than heartbeat_interval, no step brings the
\* missed-heartbeat counter to 2, closes the transport or enters Reconnecting.
C7_AckedHeartbeatsKeepTransport ==
  [][ ( TransportUp /\ ~hbLate' /\ step'.in # "close" )
      => ( /\ missedHeartbeats' < 2
           /\ connectionState' # "reconnecting"
           /\ TransportUp' )
    ]_vars

\* C7's case: an ack arrives in time on the connected session's transport,
\* at the very moment of a tick and after it
C7_Witness ==
  /\ step.in = "HEARTBEAT_ACK"
  /\ TransportUp /\ ~hbLate
  /\ connectionState = "connected"
  /\ ackAge = 0 /\ hbClock = heartbeatInterval

\* C8: when SessionDescribe ends the handshake of connect(), the state becomes
\* Connected and the observer receives connected.
C8_InitialHandshakeEmitsConnected ==
  [][ ( /\ step'.in = "SESSION_DESC"
        /\ step'.kind = "connect" /\ step'.cur /\ step'.pending
        /\ connectionState = "connecting" )
      => ( connectionState' = "connected" /\ EmittedNext("connected") )
    ]_vars

\* the next state is reached by the failure of connect(): its transport closes
\* (after an error or not), or its 10 s pass, before its SessionDescribe
InitialConnectFails ==
  /\ step'.kind = "connect"
  /\ step'.pending
  /\ step'.in \in {"close", "timeout"}
  /\ connectionState = "connecting"

\* C9: a failure of connect() leaves the session Disconnected with no
\* reconnect loop started, and a SessionDescribe that arrives on the failed
\* transport afterwards does not make the session Connected.
C9_FailedConnectStaysDisconnected ==
  [][ /\ InitialConnectFails
         => ( /\ connectionState' = "disconnected"
              /\ ~EmittedNext("reconnecting")
              /\ ~reconnectTimer' )
      /\ ( /\ step'.in = "SESSION_DESC"
           /\ step'.kind = "connect"
           /\ connectionState = "disconnected" )
         => connectionState' = "disconnected"
    ]_vars

\* C10: once disconnect() has been called the state is Disconnected for good.
C10_DisconnectIsTerminal ==
  disconnectCalled => connectionState = "disconnected"

\* ---------------------------------------------------------- disconnect()
\* the fields of the session object that disconnect() can touch
SessionFields ==
  << connectionState, ws, intentionalDisconnect, reconnectAttempt, reconnectTimer,
     heartbeatTimer, ssrc, secretKey, speaking, localStream, audioContext,
     audioPipeline, processorNode, playbackTimer, playbackContext, sequenceNumber,
     timestamp, users, ssrcToUser, jitterBuffers >>

\* C11: disconnect() is idempotent: a call that directly follows another call
\* of disconnect() changes no field of the session and notifies the observer
\* of nothing.
C11_DisconnectIdempotent ==
  [][ ( step.in = "disconnect" /\ step'.in = "disconnect" )
      => ( emitted' = << >> /\ SessionFields' = SessionFields ) ]_vars

\* C13: the disconnected notification is final: once disconnect() has been
\* called or disconnected has been emitted, no step other than a further call
\* of disconnect() emits an observer event.
C13_DisconnectedIsFinal ==
  [][ ( ( disconnectCalled \/ EmittedEv("disconnected") ) /\ step'.in # "disconnect" )
      => emitted' = << >> ]_vars

\* ------------------------------------------------------------- backoff
\* C20: the backoff timer armed for reconnect attempt n waits
\* min(1000 * 2^(n-1), 16000) ms: 1000, 2000, 4000, 8000 and 16000 ms for
\* the attempts 1 to 5.
C20_BackoffDelays ==
  [][ \A i \in DOMAIN emitted' :
        emitted'[i].ev = "reconnecting"
        => ( /\ emitted'[i].attempt \in 1..5
             /\ reconnectTimer'
             /\ reconnectDelay' = << 1000, 2000, 4000, 8000, 16000 >>[emitted'[i].attempt] )
    ]_vars

\* C20's case: the timer of the fifth attempt is armed, with 16 s to wait
C20_Witness ==
  /\ EmittedEv("reconnecting")
  /\ reconnectTimer
  /\ reconnectAttempt = 5
  /\ reconnectDelay = 16000

\* ------------------------------------------------------- outbound audio
\* C18: of two packets handed to the transport one after the other, the
\* second carries the sequence number of the first plus 1 (mod 2^16) and its
\* timestamp plus 960 (mod 2^32), also when a packet was built in between
\* while no transport was open.
C18_ConsecutiveRtpHeaders ==
  Len(sent) = 2 =>
    /\ sent[2].seq = (sent[1].seq + 1) % 65536
    /\ sent[2].ts = Add32(sent[1].ts, OPUS_FRAME_SIZE)

\* ------------------------------------------------------ resumed speaking
\* the next state is reached by the drop of the transport of a Connected
\* session that is speaking, and the session goes on to reconnect
DropWhileSpeaking ==
  /\ CurrentTransportCloses
  /\ connectionState = "connected"
  /\ speaking
  /\ connectionState' = "reconnecting"

\* C14: a session that was speaking when its transport dropped (wasSpeaking
\* is set by exactly those drops) has, on the transport of the reconnect
\* attempt that succeeded, the microphone flag set in the first Speaking
\* message the SFU receives after its new SessionDescribe.
C14_ResumedSpeakingHasMicrophone ==
  [][ /\ DropWhileSpeaking => wasSpeaking'
      /\ wasSpeaking' # wasSpeaking => ( step'.in = "close" /\ wasSpeaking' = speaking )
      /\ ( /\ wasSpeaking'
           /\ ws' # 0
           /\ sock'[ws'].kind = "reconnect"
           /\ sock'[ws'].spk # "none" ) => sock'[ws'].spk = "mic"
    ]_vars

\* ------------------------------------------------- disconnect() resources
\* the session holds nothing: no transport that is not closed, no heartbeat
\* or playback timer, no capture stream, no AudioPipeline, no JitterBuffer,
\* no participant and no SessionKeys
NoResources ==
  /\ ws = 0
  /\ \A w \in Sockets : sock[w].rs \in {"free", "closed", "closing"}
  /\ ~heartbeatTimer
  /\ ~playbackTimer
  /\ ~localStream
  /\ audioPipeline = "none"
  /\ jitterBuffers = {}
  /\ \A u \in Users : users[u] = 0
  /\ \A x \in RemoteSsrcs : ssrcToUser[x] = ""
  /\ secretKey = 0

\* C12: once disconnect() has returned the session holds no resources and
\* keeps holding none, also when a jitter-buffer init, a microphone request or
\* a transport event was in flight at the call.
C12_NoResourcesAfterDisconnect ==
  ( connectCalled /\ disconnectCalled ) => NoResources

\* ------------------------------------------------------------- the room
\* C17: every ssrc that is a key of the SSRC index maps to a participant that
\* exists and whose ssrc is that key, after any sequence of UserJoin and
\* UserLeave.
C17_SsrcIndexConsistent ==
  \A x \in RemoteSsrcs : ssrcToUser[x] # "" => users[ssrcToUser[x]] = x

\* the fields a dropped frame must leave alone
RoomFields ==
  << connectionState, ws, secretKey, users, ssrcToUser, jitterBuffers, jitterInits >>

\* C19: no binary frame makes the handler raise an error; a frame that is
\* short, of an ssrc the index does not know, of failed authentication, or
\* that arrives while the session has no key is dropped: nothing is pushed
\* and state, key and participants stay as they were.
C19_BadFramesAreDropped ==
  [][ step'.in = "audio" =>
        LET f == audioIn'.frame
            bad == \/ f.short
                   \/ f.ssrc \notin RemoteSsrcs
                   \/ ssrcToUser[f.ssrc] = ""
                   \/ ~f.auth
                   \/ secretKey = 0
        IN /\ audioIn'.out # "threw"
           /\ bad => ( audioIn'.out = "dropped" /\ RoomFields' = RoomFields )
    ]_vars

\* -------------------------------------------------------- jitter buffer
\* C15: when every packet of a run of consecutive sequence numbers (at most
\* 10, so that nothing is evicted) arrives, in any order and with pops in
\* between, pop() returns the decoded packets of the run in increasing order,
\* each once, and nothing else; when all have arrived and the buffer is
\* drained, all have been decoded.
C15_CompleteRunDecodedInOrder ==
  feed.missing = 0 =>
    /\ \A i \in DOMAIN played :
         played[i].out = "decoded" /\ played[i].seq = SeqOf(feed, i)
    /\ ( feed.pending = {} /\ Len(jb.buffer) = 0 ) => Len(played) = RunLen

\* C16: when exactly one packet k of a run is missing and the others arrive
\* in order, the frames pop() returns are the run in order with one
\* concealment frame at position k; consecutivePLC is 1 right after that pop
\* and 0 after each decoded packet.
C16_OneLossOnePlc ==
  ( feed.missing # 0 /\ feed.inOrder ) =>
    \A i \in DOMAIN played :
      /\ played[i].seq = SeqOf(feed, i)
      /\ i = feed.missing => ( played[i].out = "plc" /\ played[i].consecutivePLC = 1 )
      /\ i # feed.missing => ( played[i].out = "decoded" /\ played[i].consecutivePLC = 0 )

\* C23: a pop() that finds no packet of the expected sequence number and no
\* later one in the buffer returns nothing and changes nothing: nextSequence,
\* lastPlayedSequence and consecutivePLC keep their values, also when the
\* buffer holds packets that are not later than the expected one.
C23_IdlePopChangesNothing ==
  [][ ( /\ feed' = feed
        /\ jb.initialized
        /\ ~InBuffer(jb, jb.nextSequence)
        /\ ~hasFuturePackets(jb) )
      => ( jb' = jb /\ played' = played ) ]_vars

\* C24: push() does not insert a packet whose sequence number equals or
\* precedes the last played one under the wrap-aware difference
\* ((a - b + 32768) mod 65536) - 32768: such a packet is not in the buffer
\* after the call.
C24_LatePacketsAreDropped ==
  [][ \A i \in feed.pending \ feed'.pending :
        ( /\ jb.lastPlayedSequence # -1
          /\ ((SeqOf(feed, i) - jb.lastPlayedSequence + 32768) % 65536) - 32768 <= 0 )
        => ~InBuffer(jb', SeqOf(feed, i)) ]_vars

\* ------------------------------------------------------ one live transport
\* the transports that are not closed and not closing
LiveTransports == { w \in Sockets : sock[w].rs \in {"connecting", "open"} }

\* C25: the session has at most one live transport at any time, and an event
\* (open, message, close, error) of a transport that this.ws does not hold
\* changes no field of the session.
C25_OneLiveTransport ==
  [][ /\ Cardinality(LiveTransports') <= 1
      /\ ( step'.in \in {"open", "READY", "SESSION_DESC", "HEARTBEAT_ACK", "close"}
           /\ ~step'.cur )
         => SessionFields' = SessionFields ]_vars

\* ------------------------------------------------------- leaving Connected
\* C27: a Connected session leaves Connected only by a transport close, a
\* heartbeat timeout or disconnect(); the 10 s timer of an earlier connect()
\* never sets it to Disconnected.
C27_OnlyCloseLeavesConnected ==
  [][ ( connectionState = "connected" /\ connectionState' # "connected" )
      => step'.in \in {"close", "heartbeat", "disconnect"} ]_vars

\* ------------------------------------------------- the reconnect handshake
\* C30, as stated: when a reconnect backoff expires and the attempt opens its
\* transport, connection_state becomes Connecting.
C30_BackoffExpiryEntersConnecting ==
  [][ ReconnectOpensTransport => connectionState' = "connecting" ]_vars

\* C30, amended: the expiry of a reconnect backoff opens the new transport
\* without changing connection_state, which is not Connecting during the new
\* handshake; the session_id stays the same and is the one every Identify
\* carries; SessionDescribe on a transport of a reconnect attempt sets
\* Connected.
C30_ReconnectHandshakeStates ==
  [][ /\ ReconnectOpensTransport
         => ( /\ connectionState' = connectionState
              /\ connectionState' # "connecting"
              /\ sessionId' = sessionId )
      /\ ( step'.in = "SESSION_DESC" /\ step'.kind = "reconnect" )
         => connectionState' = "connected"
      /\ identifies' \subseteq {sessionId}
    ]_vars

\* C30's case: SessionDescribe has just arrived on the transport that a
\* reconnect attempt opened after its backoff, and the session is Connected
C30_Witness ==
  /\ step.in = "SESSION_DESC"
  /\ step.kind = "reconnect"
  /\ step.cur
  /\ ws # 0
  /\ sock[ws].kind = "reconnect"
  /\ sock[ws].stage = 4
  /\ connectionState = "connected"
  /\ identifies = {sessionId}

\* ------------------------------------------------- participants on a drop
\* C28: when the session leaves Connected because its transport dropped,
\* both participant indices, by user_id and by ssrc, are empty afterwards.
C28_DropEmptiesParticipants ==
  [][ ( /\ connectionState = "connected"
        /\ CurrentTransportCloses
        /\ connectionState' # "connected" )
      => ( /\ \A u \in Users : users'[u] = 0
           /\ \A x \in RemoteSsrcs : ssrcToUser'[x] = "" ) ]_vars

\* ---------------------------------------------------- one capture at a time
\* C26: the microphone is captured at most once at a time: a capture stream
\* is acquired, and an AudioPipeline built for it, only when the session
\* holds no capture stream and no AudioPipeline, whatever the interleaving of
\* startSpeaking() calls, drops and reconnects.
C26_OneCaptureAtATime ==
  [][ ( step'.in = "getUserMedia" /\ emitted' = << >> )
      => ( ~localStream /\ audioPipeline = "none" ) ]_vars

\* ------------------------------------------------ one JitterBuffer per sender
\* C22: every authenticated packet of a sender is pushed into the one
\* JitterBuffer the playback timer polls for its ssrc: no JitterBuffer that
\* holds a packet is ever replaced in this.jitterBuffers, even when several
\* packets of a new ssrc arrive before the first jitterBuffer.init() settles.
C22_OneJitterBufferPerSsrc ==
  \A x \in RemoteSsrcs : ~jitterReplaced[x]

\* ------------------------------------------------- the switchable Denoiser
\* C29: on an initialised pipeline whose Denoiser did not fail to load, a
\* process() made while noise suppression is switched on runs the Denoiser,
\* and one made while it is switched off gives the block to the encoder
\* unchanged, whatever the setting the pipeline was built with.
C29_DenoiserFollowsSwitch ==
  [][ ( ap'.op = "process" /\ ap.initialized /\ ~ap.loadFailed )
      => IF ap.noiseSuppressionEnabled
         THEN ap'.ran = "denoiser"
         ELSE ap'.ran = "passthrough" /\ ap'.fed = ap'.input ]_vars

\* ---------------------------------------------------- the nonce of a packet
\* C21: the nonce a packet is sealed with is the 12 header bytes put on the
\* wire followed by 12 zero bytes; the receiver's nonce is the 12 header
\* bytes it received followed by 12 zero bytes; and a packet whose header
\* was changed in transit does not open: no frame is delivered.
C21_NonceIsHeaderThenZeros ==
  /\ wire.at # "idle" =>
       /\ Len(wire.header) = 12
       /\ Len(wire.nonce) = 24
       /\ \A i \in 1..12 : wire.nonce[i] = wire.header[i]
       /\ \A i \in 13..24 : wire.nonce[i] = 0
       /\ wire.data.box.n = wire.nonce
       /\ wire.changes = 0 => wire.data.header = wire.header
  /\ wire.at = "received" =>
       /\ Len(wire.rnonce) = 24
       /\ \A i \in 1..12 : wire.rnonce[i] = wire.data.header[i]
       /\ \A i \in 13..24 : wire.rnonce[i] = 0
       /\ wire.data.header # wire.header => wire.opened = "null"

\* a packet with a changed header byte has reached a receiver that holds the
\* sender's key and knows the ssrc of the received header, and was not opened
C21_Witness ==
  /\ wire.at = "received"
  /\ wire.data.header # wire.header
  /\ KnownSender(ssrcOf(wire.data.header))
  /\ wire.data.box.k \in Keys
  /\ secretboxOpen(wire.data.box, wire.nonce, wire.data.box.k) # "null"
  /\ wire.opened = "null"

====
